---- MODULE Spec2Model ----
(***************************************************************************)
(* A model of jump.py: the `jump` command loads config.yaml, looks the     *)
(* requested jump up by name, resolves the instance id (aws ec2            *)
(* describe-instances), optionally resolves the DNS name of a VPC endpoint *)
(* (aws ec2 describe-vpc-endpoints) and starts an SSM port-forwarding      *)
(* session (aws ssm start-session).                                        *)
(*                                                                         *)
(* Python strings are TLA+ strings; a YAML scalar that the code formats    *)
(* with str() is a tagged value [type, val]; an optional value (None or a  *)
(* value) is a sequence of length 0 or 1.  The `verbose` option only       *)
(* echoes the constructed command lines and the captured output and has no *)
(* effect on control flow, so it has no variable.                          *)
(***************************************************************************)
EXTENDS FiniteSets, Integers, Sequences, TLC

\* ------------------------------------------------------------ bounds ----
\* Longest config document, in jump records.
MaxJumps == 2
\* Longest output text of a directory lookup, in characters.
MaxOut == 4

\* ---------------------------------------------------- python values ----
PyInt(n) == [type |-> "int", val |-> n]
PyStr(s) == [type |-> "str", val |-> s]

Digit(d) == SubSeq("0123456789", d + 1, d + 1)

RECURSIVE NatToStr(_)
NatToStr(n) == IF n < 10 THEN Digit(n) ELSE NatToStr(n \div 10) \o Digit(n % 10)

\* str(v): decimal digits of an int, the string itself for a str.
str(v) ==
    IF v.type = "int"
    THEN IF v.val < 0 THEN "-" \o NatToStr(0 - v.val) ELSE NatToStr(v.val)
    ELSE v.val

\* The characters str.strip() removes (those a command's output can hold).
IsSpace(c) == c \in {" ", "\t", "\n", "\r", "\f"}

RECURSIVE lstrip(_)
lstrip(s) == IF s # "" /\ IsSpace(Head(s)) THEN lstrip(Tail(s)) ELSE s

RECURSIVE rstrip(_)
rstrip(s) ==
    IF s # "" /\ IsSpace(SubSeq(s, Len(s), Len(s)))
    THEN rstrip(SubSeq(s, 1, Len(s) - 1))
    ELSE s

\* Variant of strip: only the leading white space is removed.
StripLeadingOnly(s) == lstrip(s)

\* s.strip()
strip(s) == rstrip(lstrip(s))

\* Variant of In: the text is only looked for at the start.
InAtStart(sub, s) == SubSeq(s, 1, Len(sub)) = sub

\* `sub in s` on strings.
In(sub, s) ==
    \E i \in 1..(Len(s) - Len(sub) + 1) : SubSeq(s, i, i + Len(sub) - 1) = sub

\* json.dumps of one character of a string.
JsonChar(c) ==
    CASE c = "\"" -> "\\\""
      [] c = "\\" -> "\\\\"
      [] c = "\n" -> "\\n"
      [] c = "\r" -> "\\r"
      [] c = "\t" -> "\\t"
      [] c = "\f" -> "\\f"
      [] OTHER -> c

RECURSIVE JsonEscape(_)
JsonEscape(s) == IF s = "" THEN "" ELSE JsonChar(Head(s)) \o JsonEscape(Tail(s))

\* json.dumps of a list holding one string.
JsonList1(l) == "[\"" \o JsonEscape(l[1]) \o "\"]"

\* json.dumps(parameters): keys in insertion order, separators ", " and ": ".
JsonDumps(p) ==
    "{\"host\": " \o JsonList1(p.host)
        \o ", \"portNumber\": " \o JsonList1(p.portNumber)
        \o ", \"localPortNumber\": " \o JsonList1(p.localPortNumber) \o "}"

\* Variant of CalledProcessError: the exit status is never checked.
StatusNeverChecked(check, status) == FALSE

\* subprocess raises CalledProcessError iff the caller asked for the check
\* and the command's exit status is not zero.
CalledProcessError(check, status) == check /\ status # 0

\* ------------------------------------------------------ class Jump ----
RequiredFields ==
    {"name", "target_instance_name", "remote_host", "remote_port",
     "local_port", "aws_profile"}

DefaultedFields == {"remote_host_is_a_vpc_endpoint"}

\* Jump(**j) raises TypeError for a missing required keyword and for an
\* unexpected keyword; the dataclass checks no value against its annotation.
JumpInitRaises(j) ==
    \/ ~(RequiredFields \subseteq DOMAIN j)
    \/ ~(DOMAIN j \subseteq RequiredFields \cup DefaultedFields)

\* The Jump built by Jump(**j).
Jump(j) ==
    [name |-> j.name,
     target_instance_name |-> j.target_instance_name,
     remote_host |-> j.remote_host,
     remote_port |-> j.remote_port,
     local_port |-> j.local_port,
     aws_profile |-> j.aws_profile,
     remote_host_is_a_vpc_endpoint |->
         IF "remote_host_is_a_vpc_endpoint" \in DOMAIN j
         THEN j.remote_host_is_a_vpc_endpoint
         ELSE FALSE]

\* Variant of JumpsByName: an earlier record is kept when a later one has
\* the same name.
RECURSIVE JumpsByNameKeepFirst(_)
JumpsByNameKeepFirst(js) ==
    IF js = <<>>
    THEN <<>>
    ELSE LET d == JumpsByNameKeepFirst(SubSeq(js, 1, Len(js) - 1))
             j == js[Len(js)]
         IN  [k \in DOMAIN d \cup {j.name} |-> IF k \in DOMAIN d THEN d[k] ELSE j]

\* {j.name: j for j in jumps}: a later record replaces an earlier one that
\* has the same name.
RECURSIVE JumpsByName(_)
JumpsByName(js) ==
    IF js = <<>>
    THEN <<>>
    ELSE LET d == JumpsByName(SubSeq(js, 1, Len(js) - 1))
             j == js[Len(js)]
         IN  [k \in DOMAIN d \cup {j.name} |-> IF k = j.name THEN j ELSE d[k]]

\* The exception parse_jumps_from_config catches, by kind; "" when none.
\* kind "absent": open() fails; "malformed": yaml.safe_load fails;
\* "nojumps": raw["jumps"] fails; "ok": raw["jumps"] is a list of mappings.
ParseError(file) ==
    CASE file.kind = "absent" -> "FileNotFoundError"
      [] file.kind = "malformed" -> "YAMLError"
      [] file.kind = "nojumps" -> "KeyError"
      [] OTHER ->
           IF \E i \in DOMAIN file.jumps : JumpInitRaises(file.jumps[i])
           THEN "TypeError"
           ELSE ""

\* The mapping parse_jumps_from_config returns when nothing is raised.
ParsedJumps(file) == JumpsByName([i \in DOMAIN file.jumps |-> Jump(file.jumps[i])])

LowerChar(c) ==
    LET upper == "ABCDEFGHIJKLMNOPQRSTUVWXYZ"
        lower == "abcdefghijklmnopqrstuvwxyz"
        at == { i \in 1..Len(upper) : SubSeq(upper, i, i) = c }
    IN  IF at = {} THEN c ELSE LET i == CHOOSE i \in at : TRUE IN SubSeq(lower, i, i)

RECURSIVE Lower(_)
Lower(s) == IF s = "" THEN "" ELSE LowerChar(Head(s)) \o Lower(Tail(s))

\* Variant of Get: keys are matched without regard to case.
GetIgnoringCase(jumps, n) ==
    LET ks == { k \in DOMAIN jumps : Lower(k) = Lower(n) }
    IN  IF ks = {} THEN <<>> ELSE <<jumps[CHOOSE k \in ks : TRUE]>>

\* jumps.get(name, None): exact match on the key.
Get(jumps, n) == IF n \in DOMAIN jumps THEN <<jumps[n]>> ELSE <<>>

\* ---------------------------------------------------------- state ----
VARIABLES
    pc,                 \* position of the jump command
    name,               \* the NAME argument, <<>> before the command reads it
    raw,                \* the config.yaml that was read, <<>> before the read
    target,             \* jumps.get(name): <<>> for None, <<jump>> otherwise
    target_instance_id, \* result of lookup_instance_id, "" before it returns
    target_remote_host, \* host handed to start_ssm_session, <<>> before set
    instance_out,       \* completed describe-instances call, <<>> before it
    dns_out,            \* completed describe-vpc-endpoints call, <<>> before
    parameters,         \* start_ssm_session's parameters, <<>> before built
    session_status,     \* exit status of aws ssm start-session, <<>> before
    calls,              \* the command lines handed to subprocess, in order
    echo,               \* the red (error) messages written, in order
    exit_code           \* exit status of the process, <<>> while it runs

vars ==
    <<pc, name, raw, target, target_instance_id, target_remote_host,
      instance_out, dns_out, parameters, session_status, calls, echo,
      exit_code>>

Init ==
    /\ pc = "Idle"
    /\ name = <<>>
    /\ raw = <<>>
    /\ target = <<>>
    /\ target_instance_id = ""
    /\ target_remote_host = <<>>
    /\ instance_out = <<>>
    /\ dns_out = <<>>
    /\ parameters = <<>>
    /\ session_status = <<>>
    /\ calls = <<>>
    /\ echo = <<>>
    /\ exit_code = <<>>

\* raise typer.Exit(code=1) after a red message.
Fail(msg) ==
    /\ pc' = "Failed"
    /\ echo' = Append(echo, msg)
    /\ exit_code' = <<1>>

\* ------------------------------------------------------- jump, 160-167 ----
\* jumps = parse_jumps_from_config(); target = jumps.get(name, None)
ParseConfig(files, names) ==
    /\ pc = "Idle"
    /\ \E file \in files, n \in names :
        /\ raw' = <<file>>
        /\ name' = <<n>>
        /\ IF ParseError(file) # ""
           THEN /\ Fail("Failed to parse config.yaml. Please have a look at config.example.yaml for syntax. The error: "
                            \o ParseError(file))
                /\ target' = target
           ELSE /\ target' = Get(ParsedJumps(file), n)
                /\ IF target' = <<>>
                   THEN Fail("Jump " \o n \o " not specified in config.yaml")
                   ELSE /\ pc' = "ConfigLoaded"
                        /\ UNCHANGED <<echo, exit_code>>
    /\ UNCHANGED <<target_instance_id, target_remote_host, instance_out,
                   dns_out, parameters, session_status, calls>>

\* ------------------------------------------------ lookup_instance_id ----
InstanceCmd(instance_name, aws_profile) ==
    "aws --profile " \o aws_profile \o " ec2 describe-instances"
        \o " --query \"Reservations[*].Instances[*].[InstanceId]\" --output text"
        \o " --filters"
        \o " Name=tag:Name,Values=" \o instance_name
        \o " Name=instance-state-name,Values=running"
        \o " --output text"

\* target_instance_id = lookup_instance_id(target.target_instance_name,
\* target.aws_profile); `outs` are the completed calls the service may give.
LookupInstanceId(outs) ==
    /\ pc = "ConfigLoaded"
    /\ LET instance_name == target[1].target_instance_name
           cmd == InstanceCmd(instance_name, target[1].aws_profile)
       IN  /\ calls' = Append(calls, cmd)
           /\ \E out \in outs :
               /\ instance_out' = <<out>>
               /\ LET instance_id == strip(out.stdout)
                  IN  IF CalledProcessError(TRUE, out.status)
                      THEN /\ Fail("Failed to lookup the instance ID of " \o instance_name)
                           /\ UNCHANGED target_instance_id
                      ELSE IF instance_id = ""
                      THEN /\ Fail("Could not find instance ID for " \o instance_name)
                           /\ UNCHANGED target_instance_id
                      ELSE IF In("\n", instance_id)
                      THEN /\ Fail("Found more than one instance. This is not supported at the moment.")
                           /\ UNCHANGED target_instance_id
                      ELSE /\ target_instance_id' = instance_id
                           /\ pc' = "InstanceResolved"
                           /\ UNCHANGED <<echo, exit_code>>
    /\ UNCHANGED <<name, raw, target, target_remote_host, dns_out, parameters,
                   session_status>>

\* -------------------------------------- lookup_dns_from_vpc_endpoint ----
VpcEndpointCmd(vpc_endpoint_name, aws_profile) ==
    "aws --profile " \o aws_profile \o " ec2 describe-vpc-endpoints"
        \o " --query \"VpcEndpoints[0].DnsEntries[0].DnsName\""
        \o " --filters"
        \o " Name=tag:Name,Values=" \o vpc_endpoint_name
        \o " --output text"

\* if target.remote_host_is_a_vpc_endpoint:
\*     target_remote_host = lookup_dns_from_vpc_endpoint(target.remote_host, ...)
LookupDnsFromVpcEndpoint(outs) ==
    /\ pc = "InstanceResolved"
    /\ target[1].remote_host_is_a_vpc_endpoint
    /\ LET vpc_endpoint_name == str(target[1].remote_host)
           cmd == VpcEndpointCmd(vpc_endpoint_name, target[1].aws_profile)
       IN  /\ calls' = Append(calls, cmd)
           /\ \E out \in outs :
               /\ dns_out' = <<out>>
               /\ LET dns_name == strip(out.stdout)
                  IN  IF CalledProcessError(TRUE, out.status)
                      THEN /\ Fail("Failed to lookup the DNS of " \o vpc_endpoint_name)
                           /\ UNCHANGED target_remote_host
                      ELSE IF dns_name = ""
                      THEN /\ Fail("Could not find DNS for " \o vpc_endpoint_name)
                           /\ UNCHANGED target_remote_host
                      ELSE /\ target_remote_host' = <<PyStr(dns_name)>>
                           /\ pc' = "TargetResolved"
                           /\ UNCHANGED <<echo, exit_code>>
    /\ UNCHANGED <<name, raw, target, target_instance_id, instance_out,
                   parameters, session_status>>

\* Variant of UseRemoteHost: the instance name is taken for the host.
UseInstanceNameAsHost ==
    /\ pc = "InstanceResolved"
    /\ ~target[1].remote_host_is_a_vpc_endpoint
    /\ target_remote_host' = <<PyStr(target[1].target_instance_name)>>
    /\ pc' = "TargetResolved"
    /\ UNCHANGED <<name, raw, target, target_instance_id, instance_out,
                   dns_out, parameters, session_status, calls, echo, exit_code>>

\* Variant of UseRemoteHost: the host is settled without waiting for the
\* instance lookup.
UseRemoteHostEarly ==
    /\ pc \in {"ConfigLoaded", "InstanceResolved"}
    /\ ~target[1].remote_host_is_a_vpc_endpoint
    /\ target_remote_host' = <<target[1].remote_host>>
    /\ pc' = "TargetResolved"
    /\ UNCHANGED <<name, raw, target, target_instance_id, instance_out,
                   dns_out, parameters, session_status, calls, echo, exit_code>>

\* else: target_remote_host = target.remote_host
UseRemoteHost ==
    /\ pc = "InstanceResolved"
    /\ ~target[1].remote_host_is_a_vpc_endpoint
    /\ target_remote_host' = <<target[1].remote_host>>
    /\ pc' = "TargetResolved"
    /\ UNCHANGED <<name, raw, target, target_instance_id, instance_out,
                   dns_out, parameters, session_status, calls, echo, exit_code>>

\* ------------------------------------------------- start_ssm_session ----
\* Variant of SessionParameters: the two ports change places.
SessionParametersSwapped(remote_host, remote_port, local_port) ==
    [host |-> <<str(remote_host)>>,
     portNumber |-> <<str(local_port)>>,
     localPortNumber |-> <<str(remote_port)>>]

SessionParameters(remote_host, remote_port, local_port) ==
    [host |-> <<str(remote_host)>>,
     portNumber |-> <<str(remote_port)>>,
     localPortNumber |-> <<str(local_port)>>]

SessionCmd(target_id, params, aws_profile) ==
    "aws --profile " \o aws_profile \o " "
        \o "ssm start-session --target " \o target_id \o " "
        \o "--document-name AWS-StartPortForwardingSessionToRemoteHost --parameters "
        \o "'" \o JsonDumps(params) \o "'"

\* start_ssm_session(...) up to subprocess.run(cmd, shell=True), which blocks
\* for the lifetime of the tunnel.
StartSsmSession ==
    /\ pc = "TargetResolved"
    /\ LET params == SessionParameters(target_remote_host[1],
                                       target[1].remote_port,
                                       target[1].local_port)
       IN  /\ parameters' = <<params>>
           /\ calls' = Append(calls,
                  SessionCmd(target_instance_id, params, target[1].aws_profile))
    /\ pc' = "TunnelActive"
    /\ UNCHANGED <<name, raw, target, target_instance_id, target_remote_host,
                   instance_out, dns_out, session_status, echo, exit_code>>

\* subprocess.run(cmd, shell=True) returns: no check is asked for, so the
\* except branch is taken for no exit status; start_ssm_session and jump
\* return and the process ends with status 0.
SessionEnds(statuses) ==
    /\ pc = "TunnelActive"
    /\ \E status \in statuses :
        /\ session_status' = <<status>>
        /\ IF CalledProcessError(FALSE, status)
           THEN Fail("Failed to establish an SSM session")
           ELSE /\ pc' = "Done"
                /\ exit_code' = <<0>>
                /\ UNCHANGED echo
    /\ UNCHANGED <<name, raw, target, target_instance_id, target_remote_host,
                   instance_out, dns_out, parameters, calls>>

\* --------------------------------------------------------- inputs ----
\* Jump records a config.yaml may hold: every combination of two names, two
\* remote hosts, two integer and one non-integer remote_port, and the
\* remote_host_is_a_vpc_endpoint key absent, false and true.
BaseRecords ==
    { [name |-> n,
       target_instance_name |-> "db-bastion",
       remote_host |-> PyStr(h),
       remote_port |-> p,
       local_port |-> PyInt(15432),
       aws_profile |-> "prod"] :
        n \in {"db-jump", "web"},
        h \in {"10.0.1.5", "db-endpoint"},
        p \in {PyInt(5432), PyInt(80), PyStr("abc")} }

WellFormedRecords ==
    BaseRecords
        \cup { r @@ ("remote_host_is_a_vpc_endpoint" :> b) :
                 r \in BaseRecords, b \in BOOLEAN }

\* A record without aws_profile and a record with an unknown key.
IllFormedRecords ==
    { [name |-> "db-jump",
       target_instance_name |-> "db-bastion",
       remote_host |-> PyStr("10.0.1.5"),
       remote_port |-> PyInt(5432),
       local_port |-> PyInt(15432)],
      [name |-> "db-jump",
       target_instance_name |-> "db-bastion",
       remote_host |-> PyStr("10.0.1.5"),
       remote_port |-> PyInt(5432),
       local_port |-> PyInt(15432),
       aws_profile |-> "prod",
       region |-> "eu-west-1"] }

Records == WellFormedRecords \cup IllFormedRecords

\* The config.yaml files: absent, not YAML, without a jumps key, or with up
\* to MaxJumps jump records.
Files ==
    { [kind |-> k, jumps |-> <<>>] : k \in {"absent", "malformed", "nojumps"} }
        \cup { [kind |-> "ok", jumps |-> js] :
                 js \in UNION { [1..n -> Records] : n \in 0..MaxJumps } }

\* One well-typed db-jump record per file.
LookupFiles ==
    { [kind |-> "ok", jumps |-> <<r>>] :
        r \in { w \in WellFormedRecords :
                  w.name = "db-jump" /\ w.remote_port.type = "int" } }

Names == {"db-jump", "DB-JUMP"}

\* A completed aws call: exit status and captured standard output.
Completed(status, stdout) == [status |-> status, stdout |-> stdout]

\* All texts of up to n characters over the characters cs.
RECURSIVE Texts(_, _)
Texts(cs, n) ==
    IF n = 0
    THEN {""}
    ELSE LET shorter == Texts(cs, n - 1)
         IN  shorter \cup { t \o c : t \in shorter, c \in cs }

\* A few typical answers of the directories.
InstanceOuts ==
    { Completed(255, ""),
      Completed(254, "i-0abc\n"),
      Completed(0, ""),
      Completed(0, "i-0abc\n"),
      Completed(0, "i-0abc\ni-0def\n") }

DnsOuts ==
    { Completed(255, ""),
      Completed(254, "vpce-1.example.com\n"),
      Completed(0, "\n"),
      Completed(0, "vpce-1.example.com\n") }

\* Every answer of up to MaxOut characters.
AllOuts ==
    { Completed(255, ""), Completed(254, "i") }
        \cup { Completed(0, t) : t \in Texts({"i", " ", "\n"}, MaxOut) }

Statuses == {0, 1, 255}

\* ---------------------------------------------------- specifications ----
\* Every config file, typical directory answers.
Next ==
    \/ ParseConfig(Files, Names)
    \/ LookupInstanceId(InstanceOuts)
    \/ LookupDnsFromVpcEndpoint(DnsOuts)
    \/ UseRemoteHost
    \/ StartSsmSession
    \/ SessionEnds(Statuses)

Spec == Init /\ [][Next]_vars

\* One jump per config file, every directory answer.
NextLookup ==
    \/ ParseConfig(LookupFiles, Names)
    \/ LookupInstanceId(AllOuts)
    \/ LookupDnsFromVpcEndpoint(AllOuts)
    \/ UseRemoteHost
    \/ StartSsmSession
    \/ SessionEnds(Statuses)

SpecLookup == Init /\ [][NextLookup]_vars

\* ---------------------------------------------------- the properties ----
\* Vocabulary of the properties, defined apart from the operators above.
CharAt(s, i) == SubSeq(s, i, i)

White(c) == c \in {" ", "\t", "\n", "\r", "\f"}

\* s without its leading and trailing white space: the text between the
\* first and the last character that is not white space.
Trimmed(s) ==
    LET ink == { i \in 1..Len(s) : ~White(CharAt(s, i)) }
    IN  IF ink = {}
        THEN ""
        ELSE SubSeq(s, CHOOSE i \in ink : \A k \in ink : i <= k,
                       CHOOSE j \in ink : \A k \in ink : k <= j)

Contains(s, t) ==
    \E i \in 1..(Len(s) - Len(t) + 1) : SubSeq(s, i, i + Len(t) - 1) = t

StartsWith(s, t) == SubSeq(s, 1, Len(t)) = t

EndsWith(s, t) == Len(t) <= Len(s) /\ SubSeq(s, Len(s) - Len(t) + 1, Len(s)) = t

\* A command line of the aws CLI under the jump's profile, by service.
AwsCall(cmd, service) ==
    StartsWith(cmd, "aws --profile " \o target[1].aws_profile \o service)

IsInstanceCall(cmd) == AwsCall(cmd, " ec2 describe-instances ")
IsEndpointCall(cmd) == AwsCall(cmd, " ec2 describe-vpc-endpoints ")
IsSessionCall(cmd) == AwsCall(cmd, " ssm start-session ")

CallsOf(IsKind(_)) == { i \in DOMAIN calls : IsKind(calls[i]) }

ExitedWith(code) == pc = "Failed" /\ exit_code = <<code>>

\* C1 (as claimed): whenever the session transport completes with a non-zero
\* status, the failure is reported and the invocation ends with exit status 1.
C1_LaunchFailureIsFatal ==
    (session_status # <<>> /\ session_status[1] # 0)
        => /\ ExitedWith(1)
           /\ echo = <<"Failed to establish an SSM session">>

\* C2: when the config loads and the requested name is the name of none of
\* its records (exact, case-sensitive comparison), the command exits with
\* status 1 and has made no call to any external service.
C2_UnknownNameNoCalls ==
    (/\ raw # <<>>
     /\ raw[1].kind = "ok"
     /\ \A i \in DOMAIN raw[1].jumps :
            /\ DOMAIN raw[1].jumps[i] \in
                   {RequiredFields, RequiredFields \cup DefaultedFields}
            /\ raw[1].jumps[i].name # name[1])
        => /\ ExitedWith(1)
           /\ calls = <<>>
           /\ target = <<>>
           /\ instance_out = <<>> /\ dns_out = <<>> /\ session_status = <<>>

\* C2 witness: a config that holds db-jump was loaded, DB-JUMP was asked for,
\* and the command has failed.
C2_Witness ==
    /\ pc = "Failed"
    /\ raw # <<>> /\ raw[1].kind = "ok" /\ Len(raw[1].jumps) = 2
    /\ \A i \in DOMAIN raw[1].jumps :
           /\ DOMAIN raw[1].jumps[i] = RequiredFields
           /\ raw[1].jumps[i].name = "db-jump"
    /\ name = <<"DB-JUMP">>

\* C3: for a jump whose remote_host_is_a_vpc_endpoint is false, the endpoint
\* directory is never called and the host handed to the tunnel launcher is
\* the definition's remote_host, unchanged.
C3_DirectHostVerbatim ==
    (target # <<>> /\ ~target[1].remote_host_is_a_vpc_endpoint)
        => /\ CallsOf(IsEndpointCall) = {}
           /\ dns_out = <<>>
           /\ pc \in {"TargetResolved", "TunnelActive", "Done"}
                  => target_remote_host = <<target[1].remote_host>>
           /\ parameters # <<>>
                  => parameters[1].host = <<target[1].remote_host.val>>

\* C3 witness: the tunnel is up for a jump whose flag is false.
C3_Witness ==
    /\ pc = "TunnelActive"
    /\ ~target[1].remote_host_is_a_vpc_endpoint
    /\ parameters # <<>>

\* C4: for a jump whose remote_host_is_a_vpc_endpoint is true, a tunnel is
\* only launched after a successful endpoint lookup that was queried with the
\* definition's remote_host as tag value and its aws_profile, and the host
\* handed to the launcher is the text that lookup returned, stripped of
\* surrounding white space.
C4_EndpointHostFromLookup ==
    (target # <<>> /\ target[1].remote_host_is_a_vpc_endpoint
                   /\ parameters # <<>>)
        => /\ dns_out # <<>>
           /\ dns_out[1].status = 0
           /\ target_remote_host = <<PyStr(Trimmed(dns_out[1].stdout))>>
           /\ parameters[1].host = <<Trimmed(dns_out[1].stdout)>>
           /\ Len(calls) = 3
           /\ IsEndpointCall(calls[2])
           /\ EndsWith(calls[2],
                  " --filters Name=tag:Name,Values=" \o target[1].remote_host.val
                      \o " --output text")

\* C4 witness: the tunnel is up for a flagged jump whose endpoint lookup
\* returned text with surrounding white space.
C4_Witness ==
    /\ pc = "TunnelActive"
    /\ target[1].remote_host_is_a_vpc_endpoint
    /\ dns_out[1].stdout # Trimmed(dns_out[1].stdout)
    /\ parameters[1].host # <<target[1].remote_host.val>>

\* The result lines of an output text: its lines (the stretches between
\* newlines) that hold more than white space, as pairs of the positions
\* before and after the stretch.
ResultLines(s) ==
    LET breaks == {0, Len(s) + 1} \cup { i \in 1..Len(s) : CharAt(s, i) = "\n" }
    IN  { ab \in breaks \X breaks :
            /\ ab[1] < ab[2]
            /\ \A k \in breaks : ~(ab[1] < k /\ k < ab[2])
            /\ Trimmed(SubSeq(s, ab[1] + 1, ab[2] - 1)) # "" }

LineText(s, ab) == Trimmed(SubSeq(s, ab[1] + 1, ab[2] - 1))

InstanceQueryAnswered == instance_out # <<>> /\ instance_out[1].status = 0

\* C5: an answered instance query with no result line is a not-found failure,
\* with two or more result lines an ambiguity failure (no instance is picked),
\* and with exactly one result line yields that line, stripped, as the
\* instance identifier.
C5_InstanceCardinality ==
    InstanceQueryAnswered =>
        LET out == instance_out[1].stdout
            n == Cardinality(ResultLines(out))
        IN  /\ n = 0 =>
                /\ ExitedWith(1)
                /\ echo = <<"Could not find instance ID for "
                                \o target[1].target_instance_name>>
                /\ target_instance_id = ""
            /\ n >= 2 =>
                /\ ExitedWith(1)
                /\ echo = <<"Found more than one instance. This is not supported at the moment.">>
                /\ target_instance_id = ""
                /\ Len(calls) = 1
            /\ n = 1 =>
                /\ \A ab \in ResultLines(out) : target_instance_id = LineText(out, ab)
                /\ pc = "Failed" => dns_out # <<>>

\* C5 witness: the answer held one result line between blank lines and the
\* lookup returned.
C5_Witness ==
    /\ pc = "InstanceResolved"
    /\ InstanceQueryAnswered
    /\ Cardinality(ResultLines(instance_out[1].stdout)) = 1
    /\ Contains(instance_out[1].stdout, "\n")
    /\ Len(instance_out[1].stdout) > Len(target_instance_id) + 1

InstanceLookupFailed ==
    /\ instance_out # <<>>
    /\ \/ instance_out[1].status # 0
       \/ Cardinality(ResultLines(instance_out[1].stdout)) # 1

EndpointLookupFailed ==
    /\ dns_out # <<>>
    /\ \/ dns_out[1].status # 0
       \/ Trimmed(dns_out[1].stdout) = ""

\* C6: a failed directory lookup ends the invocation with exit status 1 and
\* nothing runs after it: after a failed instance lookup there is neither an
\* endpoint lookup nor a session, after a failed endpoint lookup no session.
C6_LookupFailureStops ==
    /\ InstanceLookupFailed =>
           /\ ExitedWith(1)
           /\ Len(calls) = 1 /\ IsInstanceCall(calls[1])
           /\ dns_out = <<>> /\ parameters = <<>> /\ session_status = <<>>
    /\ EndpointLookupFailed =>
           /\ ExitedWith(1)
           /\ Len(calls) = 2 /\ IsEndpointCall(calls[2])
           /\ CallsOf(IsSessionCall) = {}
           /\ parameters = <<>> /\ session_status = <<>>

\* C6 witness: the aws command of the endpoint lookup ended with a non-zero
\* status after it had written text, and the command has failed.
C6_Witness ==
    /\ pc = "Failed"
    /\ dns_out # <<>>
    /\ dns_out[1].status # 0
    /\ Trimmed(dns_out[1].stdout) # ""

\* The annotations of class Jump: the values a record must hold.
WellTyped(j) ==
    /\ RequiredFields \subseteq DOMAIN j
    /\ j.remote_host.type = "str"
    /\ j.remote_port.type = "int"
    /\ j.local_port.type = "int"

Conforming(j) ==
    /\ DOMAIN j \in {RequiredFields, RequiredFields \cup DefaultedFields}
    /\ WellTyped(j)

\* C7 (as claimed): when the file is absent or malformed, or one of its
\* records lacks a required field, holds a value of the wrong type or has an
\* unknown field, the load fails as a whole: exit status 1, no definition
\* used, no external call.
C7_NoPartialLoad ==
    (/\ raw # <<>>
     /\ \/ raw[1].kind # "ok"
        \/ \E i \in DOMAIN raw[1].jumps : ~Conforming(raw[1].jumps[i]))
        => /\ ExitedWith(1)
           /\ target = <<>>
           /\ calls = <<>>

\* The records of the loaded file that carry the requested name, by position.
Named == { i \in DOMAIN raw[1].jumps : raw[1].jumps[i].name = name[1] }

SameDefinition(jump, j) ==
    /\ \A f \in RequiredFields : jump[f] = j[f]
    /\ jump.remote_host_is_a_vpc_endpoint =
           ("remote_host_is_a_vpc_endpoint" \in DOMAIN j
                /\ j.remote_host_is_a_vpc_endpoint)

\* C8 (as claimed): the definition a lookup by name returns is the first
\* record of the document that has that name.
C8_FirstOccurrenceWins ==
    target # <<>> =>
        \E i \in Named :
            /\ \A k \in Named : i <= k
            /\ SameDefinition(target[1], raw[1].jumps[i])

\* C8 (amended): a document whose records share a name loads without error,
\* and the definition a lookup by name returns is the last record of the
\* document that has that name.
C8_LastOccurrenceWins ==
    /\ target # <<>> =>
        \E i \in Named :
            /\ \A k \in Named : k <= i
            /\ SameDefinition(target[1], raw[1].jumps[i])
    /\ (/\ raw # <<>>
        /\ raw[1].kind = "ok"
        /\ \A i \in DOMAIN raw[1].jumps :
               DOMAIN raw[1].jumps[i] \in
                   {RequiredFields, RequiredFields \cup DefaultedFields}
        /\ Named # {})
           => target # <<>>

\* C8 witness: two records named db-jump with different remote hosts were
\* loaded and db-jump was looked up.
C8_Witness ==
    /\ pc = "ConfigLoaded"
    /\ Cardinality(Named) = 2
    /\ raw[1].jumps[1].remote_host # raw[1].jumps[2].remote_host
    /\ target[1].remote_host = raw[1].jumps[2].remote_host

\* The number a decimal numeral denotes.
RECURSIVE DecimalValue(_)
DecimalValue(s) ==
    IF s = ""
    THEN 0
    ELSE 10 * DecimalValue(SubSeq(s, 1, Len(s) - 1))
             + (CHOOSE d \in 0..9 : CharAt("0123456789", d + 1) = CharAt(s, Len(s)))

IsNumeral(s) ==
    /\ s # ""
    /\ \A i \in 1..Len(s) : Contains("0123456789", CharAt(s, i))
    /\ Len(s) > 1 => CharAt(s, 1) # "0"

\* t is the string form of the YAML scalar v.
StringFormOf(t, v) ==
    IF v.type = "int" THEN IsNumeral(t) /\ DecimalValue(t) = v.val ELSE t = v.val

ExampleJump ==
    [name |-> "db-jump",
     target_instance_name |-> "db-bastion",
     remote_host |-> PyStr("10.0.1.5"),
     remote_port |-> PyInt(5432),
     local_port |-> PyInt(15432),
     aws_profile |-> "prod",
     remote_host_is_a_vpc_endpoint |-> FALSE]

\* C9: the session request targets the resolved instance identifier with the
\* definition's aws_profile and the document
\* AWS-StartPortForwardingSessionToRemoteHost, and carries exactly host,
\* portNumber and localPortNumber, each a one-element list holding the string
\* form of the resolved host, remote_port and local_port; the instance query
\* filters by the definition's target_instance_name and by state running.
C9_SessionRequest ==
    /\ calls # <<>> =>
        /\ IsInstanceCall(calls[1])
        /\ EndsWith(calls[1],
               " --filters Name=tag:Name,Values=" \o target[1].target_instance_name
                   \o " Name=instance-state-name,Values=running --output text")
    /\ parameters # <<>> =>
        LET p == parameters[1]
            cmd == calls[Len(calls)]
        IN  /\ DOMAIN p = {"host", "portNumber", "localPortNumber"}
            /\ Len(p.host) = 1 /\ Len(p.portNumber) = 1 /\ Len(p.localPortNumber) = 1
            /\ StringFormOf(p.host[1], target_remote_host[1])
            /\ StringFormOf(p.portNumber[1], target[1].remote_port)
            /\ StringFormOf(p.localPortNumber[1], target[1].local_port)
            /\ IsSessionCall(cmd)
            /\ CallsOf(IsSessionCall) = {Len(calls)}
            /\ AwsCall(cmd, " ssm start-session --target " \o target_instance_id
                                \o " --document-name AWS-StartPortForwardingSessionToRemoteHost --parameters '{")
            /\ target[1] = ExampleJump =>
                /\ p = [host |-> <<"10.0.1.5">>,
                        portNumber |-> <<"5432">>,
                        localPortNumber |-> <<"15432">>]
                /\ EndsWith(cmd,
                       " --parameters '{\"host\": [\"10.0.1.5\"], \"portNumber\": [\"5432\"], \"localPortNumber\": [\"15432\"]}'")
                /\ EndsWith(calls[1],
                       " --filters Name=tag:Name,Values=db-bastion Name=instance-state-name,Values=running --output text")

\* C9 witness: the session was requested for the db-jump example.
C9_Witness ==
    /\ pc = "TunnelActive"
    /\ target = <<ExampleJump>>
    /\ parameters # <<>>
    /\ Len(calls) = 2

\* The dispatcher state of a position of the command.
Stage(p) ==
    CASE p = "Idle" -> "Idle"
      [] p \in {"ConfigLoaded", "InstanceResolved"} -> "ConfigLoaded"
      [] p = "TargetResolved" -> "TargetResolved"
      [] p \in {"TunnelActive", "Done"} -> "TunnelActive"
      [] OTHER -> "Failed"

StageOrder == <<"Idle", "ConfigLoaded", "TargetResolved", "TunnelActive">>

StageRank(st) == CHOOSE i \in DOMAIN StageOrder : StageOrder[i] = st

\* The calls made so far are, in this order, at most one instance lookup, at
\* most one endpoint lookup and at most one session.
CallsInOrder ==
    /\ Cardinality(CallsOf(IsInstanceCall)) <= 1
    /\ Cardinality(CallsOf(IsEndpointCall)) <= 1
    /\ Cardinality(CallsOf(IsSessionCall)) <= 1
    /\ \A i \in CallsOf(IsInstanceCall) : i = 1
    /\ \A i \in CallsOf(IsEndpointCall) : i = 2
    /\ \A i \in CallsOf(IsSessionCall) : i = Len(calls) /\ i > 1

\* C10: every step moves the dispatcher forward along Idle, ConfigLoaded,
\* TargetResolved, TunnelActive, by at most one state, or into Failed, and
\* nothing follows Failed; a stage makes its call once and after the stages
\* before it; the session is invoked only after the config lookup found the
\* jump, the instance lookup succeeded and, for a flagged jump, the endpoint
\* lookup succeeded.
C10_StagesInOrder ==
    [][/\ Stage(pc) # "Failed"
       /\ \/ Stage(pc') = "Failed"
          \/ StageRank(Stage(pc')) \in {StageRank(Stage(pc)), StageRank(Stage(pc)) + 1}
       /\ Len(calls') \in {Len(calls), Len(calls) + 1}
       /\ SubSeq(calls', 1, Len(calls)) = calls
       /\ CallsInOrder'
       /\ (calls' # calls /\ IsInstanceCall(calls'[Len(calls')]))
              => target # <<>>
       /\ (calls' # calls /\ IsEndpointCall(calls'[Len(calls')]))
              => /\ InstanceQueryAnswered /\ ~InstanceLookupFailed
                 /\ target_instance_id # ""
       /\ (calls' # calls /\ IsSessionCall(calls'[Len(calls')]))
              => /\ target # <<>>
                 /\ InstanceQueryAnswered /\ ~InstanceLookupFailed
                 /\ target_instance_id # ""
                 /\ target[1].remote_host_is_a_vpc_endpoint
                        => dns_out # <<>> /\ ~EndpointLookupFailed
                 /\ target_remote_host # <<>>
      ]_vars

\* C10 witness: the tunnel is up after an instance lookup and an endpoint
\* lookup.
C10_Witness ==
    /\ pc = "TunnelActive"
    /\ target[1].remote_host_is_a_vpc_endpoint
    /\ Len(calls) = 3
    /\ IsInstanceCall(calls[1]) /\ IsEndpointCall(calls[2]) /\ IsSessionCall(calls[3])

====
